---- MODULE Spec2Model ----
(* Flask-Consent: the consent registry, the request-scoped ConsentData (cookie  *)
(* decode, get/set with the dirty flag, cookie encode), the consent route and   *)
(* the banner injector, modelled as one client talking to one application.      *)
(* Further specifications over the same variables cover the setup (init_app,    *)
(* add_category), every configured validity, and two requests handled           *)
(* concurrently.                                                                *)
(*                                                                              *)
(* Time is counted in hours since an arbitrary epoch.  A JSON value is a        *)
(* record [t, v]: t is its JSON type, v its content (the items of a list, the   *)
(* characters of a string).  A timestamp string is the sequence of its decimal  *)
(* digits.  A list element is a string; NumElem stands for an element that is   *)
(* a JSON number, not a string.                                                 *)
EXTENDS Integers, Sequences, FiniteSets, TLC

VARIABLES
    categories,        \* Consent._categories: OrderedDict, as a sequence of ConsentCategory
    jar,               \* the client's consent cookie (what request.cookies will hold)
    now,               \* datetime.utcnow(), in hours
    pc,                \* "idle" | "view" | "after": position in the request cycle
    req,               \* the request being handled (route, method, content type, body)
    attached,          \* request.consent exists (ConsentData.__init__ returned)
    enabled,           \* ConsentData._enabled
    last_updated,      \* ConsentData._last_updated
    dirty,             \* ConsentData._dirty
    response,          \* the response being built / last delivered
    just_posted,       \* the exchange just completed was a successful consent POST
    months,            \* app.config['CONSENT_VALID_FOR_MONTHS']
    extensions,        \* app.extensions['consent'] and the consent url rule, per application
    registration,      \* the outcome of the last init_app call
    returned,          \* what the last add_category call returned
    calls,             \* the add_category calls made so far, in order
    reqs               \* the requests handled concurrently, each with its own ConsentData

\* the registration of the extension and its registry's history
setupVars == <<extensions, registration, returned, calls>>

\* one client's exchanges with the application
requestVars == <<jar, now, pc, req, attached, enabled, last_updated, dirty, response, just_posted>>

vars == <<categories, requestVars, months, setupVars, reqs>>

-----------------------------------------------------------------------------
(* Bounds of the model *)

\* the clock advances by single hours at most this many times
MaxHours == 1

\* longest list of names in an initial cookie or a POST payload
MaxListLen == 2
MaxCalls == 3        \* the add_category calls of a setup
MaxMonths == 13      \* the configured validities, in months

-----------------------------------------------------------------------------
(* Configuration: init_app's defaults *)

CONSENT_VALID_FOR_MONTHS == 12

\* timedelta(days=int(months) / 12 * 365), in hours: 365 * 24 / 12 = 730 hours a month
ValidForHours(m) == (m * 365 * 24) \div 12

\* ConsentExtensionState.valid_for, in hours
valid_for == ValidForHours(months)

\* timedelta.days: the whole days of a duration
TimedeltaDays(hours) == hours \div 24

\* max_age=int(self._state.valid_for.days * 24 * 60 * 60), in seconds
MaxAge(m) == TimedeltaDays(ValidForHours(m)) * 24 * 60 * 60

-----------------------------------------------------------------------------
(* Names and JSON values *)

\* a name the application does not register (the tests post "foo")
UnknownName == "foo"

\* a list element that is a JSON number: hashable, not a string
NumElem == "<number>"

Range(s) == {s[i] : i \in 1..Len(s)}

SeqsUpTo(S, n) == UNION {[1..k -> S] : k \in 0..n}

\* every ordering of a finite set: what list(a_set) may return
Orderings(S) == {s \in [1..Cardinality(S) -> S] : Range(s) = S}

\* list(a_set), when `before` may be an earlier list(...) of the same set: a set
\* that was not modified in between is iterated in the same order again
ListOf(S, before) == IF Range(before) = S /\ Len(before) = Cardinality(S) THEN {before} ELSE Orderings(S)

JMissing == [t |-> "missing", v |-> <<>>]
JStr(chars) == [t |-> "str", v |-> chars]
JNum == [t |-> "num", v |-> <<>>]
JList(items) == [t |-> "list", v |-> items]
JDict == [t |-> "dict", v |-> <<>>]
JNull == [t |-> "null", v |-> <<>>]

\* datetime.isoformat(): the decimal digits of the time
RECURSIVE isoformat(_)
isoformat(t) == IF t < 10 THEN <<t>> ELSE Append(isoformat(t \div 10), t % 10)

RECURSIVE DigitsValue(_)
DigitsValue(s) ==
    IF Len(s) = 0 THEN 0
    ELSE 10 * DigitsValue(SubSeq(s, 1, Len(s) - 1)) + s[Len(s)]

\* datetime.fromisoformat(x): TypeError unless x is a str, ValueError unless it
\* is a well-formed timestamp
fromisoformat(x) ==
    IF x.t # "str" THEN [exc |-> "TypeError", value |-> 0]
    ELSE IF Len(x.v) = 0 \/ \E i \in 1..Len(x.v) : x.v[i] \notin 0..9
         THEN [exc |-> "ValueError", value |-> 0]
    ELSE [exc |-> "none", value |-> DigitsValue(x.v)]

-----------------------------------------------------------------------------
(* Cookies *)

NoCookie == [kind |-> "absent", lu |-> JMissing, en |-> JMissing]
GarbageCookie == [kind |-> "garbage", lu |-> JMissing, en |-> JMissing]
NonObjectCookie == [kind |-> "nonobject", lu |-> JMissing, en |-> JMissing]
ObjectCookie(lu, en) == [kind |-> "object", lu |-> lu, en |-> en]

\* the names of an initial cookie: one that is registered, one that is not
CookieNames == {"required", UnknownName}

\* the cookies a client may hold before its first request: none, text that is
\* not JSON, JSON that is not an object, and objects whose fields are missing,
\* of the wrong type, malformed or well-formed (names of any configuration)
InitialCookies ==
    {NoCookie, GarbageCookie, NonObjectCookie}
    \cup {ObjectCookie(lu, en) :
            lu \in {JMissing, JNum, JStr(<<>>), JStr(isoformat(0))},
            en \in {JMissing, JStr(<<>>)} \cup {JList(l) : l \in SeqsUpTo(CookieNames, MaxListLen)}}

\* json.loads(request.cookies.get(cookie_name, '{}')) and the field reads of
\* ConsentData.__init__: the decoded state, or the exception that escapes
Decode(cookie, utcnow) ==
    LET lu == fromisoformat(cookie.lu)
        raised(e) == [exc |-> e, enabled |-> {}, last_updated |-> 0]
    IN  IF cookie.kind = "garbage" THEN raised("JSONDecodeError")
        ELSE IF cookie.kind = "nonobject" THEN raised("TypeError")
        ELSE IF cookie.kind = "object" /\ cookie.lu.t # "missing" /\ lu.exc = "TypeError"
             THEN raised("TypeError")
        ELSE [exc |-> "none",
              last_updated |->
                  IF cookie.kind = "absent" \/ cookie.lu.t = "missing" \/ lu.exc = "ValueError"
                  THEN utcnow ELSE lu.value,
              enabled |->
                  IF cookie.kind = "object" /\ cookie.en.t = "list"
                  THEN Range(cookie.en.v) ELSE {}]

\* a faulty encoder: the first name of the list is lost
Encode_DropsFirst(order, lastUpdated) ==
    ObjectCookie(JStr(isoformat(lastUpdated)), JList(IF order = <<>> THEN <<>> ELSE Tail(order)))

\* json.dumps(dict(enabled=list(self._enabled), last_updated=self._last_updated.isoformat()))
Encode(order, lastUpdated) == ObjectCookie(JStr(isoformat(lastUpdated)), JList(order))

-----------------------------------------------------------------------------
(* The registry *)

ConsentCategory(name, title, description, default, is_required) ==
    [name |-> name, title |-> title, description |-> description,
     default |-> default, is_required |-> is_required]

CategoryNames(cats) == {cats[i].name : i \in 1..Len(cats)}

\* a re-registration that forgets the old key first: the name moves to the end
OrderedDictSet_MovesToEnd(cats, cat) ==
    Append(SelectSeq(cats, LAMBDA c : c.name # cat.name), cat)

\* OrderedDict.__setitem__: an existing key keeps its position, a new key goes last
OrderedDictSet(cats, cat) ==
    IF cat.name \in CategoryNames(cats)
    THEN [i \in 1..Len(cats) |-> IF cats[i].name = cat.name THEN cat ELSE cats[i]]
    ELSE Append(cats, cat)

\* Consent.add_category's effect on the registry
add_category(cats, name, title, description, default, is_required) ==
    OrderedDictSet(cats, ConsentCategory(name, title, description, default, is_required))

\* Consent.add_standard_categories' effect on the registry (the descriptions,
\* which only the templates show, are cut short)
add_standard_categories(cats) ==
    LET c1 == add_category(cats, "required", "Required",
                  "These cookies are required for the site to function, ...",
                  TRUE, TRUE)
        c2 == add_category(c1, "preferences", "Preferences",
                  "These cookies are used for convenience functionality, ...",
                  TRUE, FALSE)
    IN  add_category(c2, "analytics", "Analytics",
                  "These cookies are used to track your page visits across the site ...",
                  TRUE, FALSE)

-----------------------------------------------------------------------------
(* Consent.init_app: binding an extension object to an application *)

Apps == {"app1", "app2"}
Extensions == {"consent1", "consent2"}
NoExtension == "none"

\* what an application holds of the extension: app.extensions['consent'] (the
\* extension of its ConsentExtensionState), the owner of the 'flask_consent'
\* url rule and the owner of the before_request / after_request hooks
Unbound == [consent |-> NoExtension, url_rule |-> NoExtension, hooks |-> NoExtension]
Bound(self) == [consent |-> self, url_rule |-> self, hooks |-> self]

\* a faulty init_app without the guard: the later registration takes over
init_app_Overwrites(exts, self, app) ==
    [exc |-> "none", extensions |-> [exts EXCEPT ![app] = Bound(self)]]

\* Consent.init_app: the exception raised, if any, and app.extensions after it
init_app(exts, self, app) ==
    IF exts[app].consent # NoExtension
    THEN [exc |-> "KeyError", extensions |-> exts]
    ELSE [exc |-> "none", extensions |-> [exts EXCEPT ![app] = Bound(self)]]

\* the outcome of an init_app call
RaisedBy(self, app, exc) == [self |-> self, app |-> app, exc |-> exc]
NothingRaised == RaisedBy(NoExtension, "none", "none")

-----------------------------------------------------------------------------
(* ConsentData: lookups and updates *)

\* a key of request.consent[...]: a category name or a ConsentCategory object
NoCategory == ConsentCategory("", "", "", FALSE, FALSE)
StrKey(name) == [type |-> "str", str |-> name, cat |-> NoCategory]
CategoryKey(cat) == [type |-> "ConsentCategory", str |-> "", cat |-> cat]

\* if isinstance(key, ConsentCategory): key = key.name
KeyName(key) == IF key.type = "ConsentCategory" THEN key.cat.name ELSE key.str

\* ConsentData.__getitem__
GetItem(en, key) == KeyName(key) \in en

\* a faulty __setitem__: the branch that removes a category is missing
SetItem_NeverRemoves(st, key, value, utcnow) ==
    IF value /\ KeyName(key) \notin st.enabled
    THEN [enabled |-> st.enabled \cup {KeyName(key)}, dirty |-> TRUE, last_updated |-> utcnow]
    ELSE st

\* a faulty __setitem__: every assignment counts as a change
SetItem_AlwaysDirty(st, key, value, utcnow) ==
    [enabled |-> IF value THEN st.enabled \cup {KeyName(key)} ELSE st.enabled \ {KeyName(key)},
     dirty |-> TRUE,
     last_updated |-> utcnow]

\* a faulty __setitem__: a removal does not mark the state dirty
SetItem_SilentRemoval(st, key, value, utcnow) ==
    IF value /\ KeyName(key) \notin st.enabled
    THEN [enabled |-> st.enabled \cup {KeyName(key)}, dirty |-> TRUE, last_updated |-> utcnow]
    ELSE IF ~value /\ KeyName(key) \in st.enabled
    THEN [enabled |-> st.enabled \ {KeyName(key)}, dirty |-> st.dirty, last_updated |-> utcnow]
    ELSE st

\* a faulty __setitem__: a removal does not refresh last_updated
SetItem_KeepsTimeOnRemoval(st, key, value, utcnow) ==
    IF value /\ KeyName(key) \notin st.enabled
    THEN [enabled |-> st.enabled \cup {KeyName(key)}, dirty |-> TRUE, last_updated |-> utcnow]
    ELSE IF ~value /\ KeyName(key) \in st.enabled
    THEN [enabled |-> st.enabled \ {KeyName(key)}, dirty |-> TRUE, last_updated |-> st.last_updated]
    ELSE st

\* ConsentData.__setitem__ on the state [enabled, last_updated, dirty]
SetItem(st, key, value, utcnow) ==
    IF value /\ KeyName(key) \notin st.enabled
    THEN [enabled |-> st.enabled \cup {KeyName(key)}, dirty |-> TRUE, last_updated |-> utcnow]
    ELSE IF ~value /\ KeyName(key) \in st.enabled
    THEN [enabled |-> st.enabled \ {KeyName(key)}, dirty |-> TRUE, last_updated |-> utcnow]
    ELSE st

\* a faulty is_stale for which consent expires at the end of the validity, not after it
is_stale_Inclusive(cookie, lastUpdated, utcnow) ==
    IF cookie.kind = "absent" THEN TRUE
    ELSE lastUpdated + valid_for <= utcnow

\* ConsentData.is_stale
is_stale(cookie, lastUpdated, utcnow) ==
    IF cookie.kind = "absent" THEN TRUE
    ELSE lastUpdated + valid_for < utcnow

\* ConsentExtensionState.html: TRUE when the banner markup is emitted, FALSE for ''
html(endpoint, cookie, lastUpdated, utcnow) ==
    endpoint = "flask_consent" \/ is_stale(cookie, lastUpdated, utcnow)

ConsentState == [enabled |-> enabled, last_updated |-> last_updated, dirty |-> dirty]

-----------------------------------------------------------------------------
(* Requests and responses *)

NoPayload == JMissing

\* request.json of a POST: a list of names (registered or not, or a non-string
\* element) or a value that is not a list
\* the names of a payload: two that are registered, one that is not
PayloadNames == {"required", "preferences", UnknownName}

Payloads ==
    {JList(l) : l \in SeqsUpTo(PayloadNames, MaxListLen) \cup {<<NumElem>>}}
    \cup {JDict, JStr(<<>>), JNull}

Request(route, method, json, payload) ==
    [route |-> route, method |-> method, json |-> json, payload |-> payload]

NoRequest == Request("", "", FALSE, NoPayload)

\* url rules: the application's own pages and CONSENT_PATH
Endpoint(route) == IF route = "/consent" THEN "flask_consent" ELSE "app"

Requests ==
    {Request(r, "GET", FALSE, NoPayload) : r \in {"/", "/banner", "/consent"}}
    \cup {Request("/consent", "GET", TRUE, NoPayload), Request("/consent", "POST", FALSE, NoPayload)}
    \cup {Request("/consent", "POST", TRUE, p) : p \in Payloads}

Response(status, msg, en, lu, banner, gets) ==
    [status |-> status, msg |-> msg, enabled |-> en, last_updated |-> lu,
     banner |-> banner, gets |-> gets, set_cookie |-> NoCookie, max_age |-> 0]

NoResponse == Response(0, <<>>, <<>>, <<>>, FALSE, {})

\* respond(status_code, **kwargs) of the consent route
respond_msg(status, msg) == Response(status, msg, <<>>, <<>>, FALSE, {})
respond_state(order, lastUpdated) == Response(200, <<>>, order, isoformat(lastUpdated), FALSE, {})

\* the framework's answer to an exception that escapes a handler
ServerError == Response(500, <<"Internal Server Error">>, <<>>, <<>>, FALSE, {})


-----------------------------------------------------------------------------
(* The consent route's validation of a POSTed list *)

\* a faulty type check: every payload passes for a list
IsJsonList_Any(new) == TRUE

\* a faulty handler that treats every JSON request as an update
IsPost_Always(rq) == TRUE

\* request.method == 'POST'
IsPost(rq) == rq.method = "POST"

\* isinstance(new, list)
IsJsonList(new) == new.t = "list"

\* for cat in new: if cat not in self._categories: return respond(400, ...)
FirstInvalid(cats, new) ==
    LET bad == {i \in 1..Len(new) : new[i] \notin CategoryNames(cats)}
    IN  IF bad = {} THEN 0 ELSE CHOOSE i \in bad : \A j \in bad : i <= j

\* 'invalid consent category specified: ' + cat: a str, or TypeError for a non-str
InvalidResponse(cat) ==
    IF cat = NumElem THEN ServerError
    ELSE respond_msg(400, <<"invalid consent category specified: ", cat>>)

\* for cat in self._categories.keys(): request.consent[cat] = cat in new
RECURSIVE SetAll(_, _, _, _, _)
SetAll(st, cats, i, new, utcnow) ==
    IF i > Len(cats) THEN st
    ELSE SetAll(SetItem(st, StrKey(cats[i].name), cats[i].name \in Range(new), utcnow),
                cats, i + 1, new, utcnow)

-----------------------------------------------------------------------------
(* The application of the tests (make_app_and_consent): the extension with the *)
(* standard categories                                                          *)

\* the state of one of the requests handled concurrently: its position, the
\* cookie it carries, its request.consent (enabled, last_updated, dirty), the
\* position k of its handler in the registry, and its response
Handling(p, cookie, rq, en, lu, d, k, rsp, mixed) ==
    [pc |-> p, cookie |-> cookie, req |-> rq, enabled |-> en, last_updated |-> lu,
     dirty |-> d, k |-> k, response |-> rsp, mixed |-> mixed]

ReqIds == {1, 2}
NoHandling == [i \in ReqIds |-> Handling("idle", NoCookie, NoRequest, {}, 0, FALSE, 0, NoResponse, FALSE)]

\* no request is being handled
NoTraffic ==
    /\ now = 0
    /\ pc = "idle"
    /\ req = NoRequest
    /\ attached = FALSE
    /\ enabled = {}
    /\ last_updated = 0
    /\ dirty = FALSE
    /\ response = NoResponse
    /\ just_posted = FALSE

\* consent = Consent(app); consent.add_standard_categories()
AppOfTheTests ==
    /\ categories = add_standard_categories(<<>>)
    /\ extensions = init_app([a \in Apps |-> Unbound], "consent1", "app1").extensions
    /\ registration = RaisedBy("consent1", "app1", "none")
    /\ returned = categories[Len(categories)]
    /\ calls = categories

Init ==
    /\ AppOfTheTests
    /\ months = CONSENT_VALID_FOR_MONTHS
    /\ jar \in InitialCookies
    /\ NoTraffic
    /\ reqs = NoHandling

-----------------------------------------------------------------------------
(* One request: before_request, the view, after_request *)

\* the client sends r with its cookie; prepare_request builds ConsentData.
\* An exception escaping the constructor ends the request with a server error.
PrepareRequest(r) ==
    /\ pc = "idle"
    /\ req' = r
    /\ LET d == Decode(jar, now)
       IN  IF d.exc = "none"
           THEN /\ attached' = TRUE
                /\ enabled' = d.enabled
                /\ last_updated' = d.last_updated
                /\ dirty' = FALSE
                /\ response' = NoResponse
                /\ pc' = "view"
           ELSE /\ attached' = FALSE
                /\ enabled' = {}
                /\ last_updated' = 0
                /\ dirty' = FALSE
                /\ response' = ServerError
                /\ pc' = "after"
    /\ UNCHANGED <<categories, jar, now, just_posted>>
    /\ UNCHANGED <<months, setupVars, reqs>>

\* an application view assigns request.consent[key] = value
AppSet(key, value) ==
    /\ pc = "view"
    /\ req.route = "/"
    /\ LET st == SetItem(ConsentState, key, value, now)
       IN  /\ enabled' = st.enabled
           /\ last_updated' = st.last_updated
           /\ dirty' = st.dirty
    /\ UNCHANGED <<categories, jar, now, pc, req, attached, response, just_posted>>
    /\ UNCHANGED <<months, setupVars, reqs>>

\* the application view of the tests: the lookup of every category
AppView ==
    /\ pc = "view"
    /\ req.route = "/"
    /\ response' = Response(200, <<>>, <<>>, <<>>, FALSE,
                       {categories[i].name : i \in {j \in 1..Len(categories) :
                                                     GetItem(enabled, CategoryKey(categories[j]))}})
    /\ pc' = "after"
    /\ UNCHANGED <<categories, jar, now, req, attached, enabled, last_updated, dirty, just_posted>>
    /\ UNCHANGED <<months, setupVars, reqs>>

\* an application page whose template calls flask_consent_code()
BannerView ==
    /\ pc = "view"
    /\ req.route = "/banner"
    /\ response' = Response(200, <<>>, <<>>, <<>>,
                       html(Endpoint(req.route), jar, last_updated, now), {})
    /\ pc' = "after"
    /\ UNCHANGED <<categories, jar, now, req, attached, enabled, last_updated, dirty, just_posted>>
    /\ UNCHANGED <<months, setupVars, reqs>>

\* Consent._handle_consent_route
HandleConsentRoute ==
    /\ pc = "view"
    /\ req.route = "/consent"
    /\ pc' = "after"
    /\ IF ~req.json
       THEN \* the full consent page; its template calls flask_consent_code()
            /\ response' = Response(200, <<>>, <<>>, <<>>,
                               html(Endpoint(req.route), jar, last_updated, now), {})
            /\ UNCHANGED <<enabled, last_updated, dirty>>
       ELSE IF IsPost(req) /\ ~IsJsonList(req.payload)
       THEN /\ response' = respond_msg(400, <<"payload is not a list">>)
            /\ UNCHANGED <<enabled, last_updated, dirty>>
       ELSE IF IsPost(req) /\ FirstInvalid(categories, req.payload.v) # 0
       THEN /\ response' = InvalidResponse(req.payload.v[FirstInvalid(categories, req.payload.v)])
            /\ UNCHANGED <<enabled, last_updated, dirty>>
       ELSE LET st == IF IsPost(req)
                      THEN SetAll(ConsentState, categories, 1, req.payload.v, now)
                      ELSE ConsentState
            IN  /\ enabled' = st.enabled
                /\ last_updated' = st.last_updated
                /\ dirty' = st.dirty
                /\ \E order \in Orderings(st.enabled) :
                       response' = respond_state(order, st.last_updated)
    /\ UNCHANGED <<categories, jar, now, req, attached, just_posted>>
    /\ UNCHANGED <<months, setupVars, reqs>>

SuccessfulPost(rq, rsp) ==
    rq.route = "/consent" /\ rq.method = "POST" /\ rq.json /\ rsp.status = 200

\* finalize_request: ConsentData.finalize writes the cookie when dirty; the
\* response reaches the client, which stores the cookie it carries, and the
\* request and its ConsentData are gone
FinalizeRequest ==
    /\ pc = "after"
    /\ pc' = "idle"
    /\ IF attached /\ dirty
       THEN \E order \in ListOf(enabled, response.enabled) :
               /\ response' = [response EXCEPT !.set_cookie = Encode(order, last_updated),
                                                !.max_age = MaxAge(months)]
               /\ jar' = Encode(order, last_updated)
       ELSE UNCHANGED <<response, jar>>
    /\ just_posted' = SuccessfulPost(req, response)
    /\ attached' = FALSE
    /\ enabled' = {}
    /\ last_updated' = 0
    /\ dirty' = FALSE
    /\ UNCHANGED <<categories, now, req>>
    /\ UNCHANGED <<months, setupVars, reqs>>

\* time passes between two requests (a request is handled in far less than an
\* hour): a single hour, or, once, the whole validity period
Tick(d) ==
    /\ pc = "idle"
    /\ d = 1 => now % valid_for < MaxHours
    /\ d = valid_for => now < valid_for
    /\ now' = now + d
    /\ just_posted' = FALSE
    /\ UNCHANGED <<categories, jar, pc, req, attached, enabled, last_updated, dirty, response>>
    /\ UNCHANGED <<months, setupVars, reqs>>

Next ==
    \/ \E r \in Requests : PrepareRequest(r)
    \/ \E i \in 1..Len(categories), value \in BOOLEAN :
           \/ AppSet(StrKey(categories[i].name), value)
           \/ AppSet(CategoryKey(categories[i]), value)
    \/ AppView
    \/ BannerView
    \/ HandleConsentRoute
    \/ FinalizeRequest
    \/ \E d \in {1, valid_for} : Tick(d)

Spec == Init /\ [][Next]_vars

-----------------------------------------------------------------------------
(* The application of the tests under every configured validity: a client     *)
(* without a cookie, the views of the application                              *)

\* app.config['CONSENT_VALID_FOR_MONTHS'] = m before Consent(app)
InitValidity ==
    /\ AppOfTheTests
    /\ months \in 1..MaxMonths
    /\ jar = NoCookie
    /\ NoTraffic
    /\ reqs = NoHandling

NextValidity ==
    \/ \E r \in {Request("/", "GET", FALSE, NoPayload), Request("/banner", "GET", FALSE, NoPayload)} :
           PrepareRequest(r)
    \/ \E i \in 1..Len(categories), value \in BOOLEAN : AppSet(StrKey(categories[i].name), value)
    \/ AppView
    \/ BannerView
    \/ FinalizeRequest
    \/ \E d \in {1, valid_for} : Tick(d)

SpecValidity == InitValidity /\ [][NextValidity]_vars

-----------------------------------------------------------------------------
(* Setting up: extension objects are bound to applications and categories are  *)
(* registered; categories is the registry of the extension object consent1      *)

\* consent1 = Consent(); consent2 = Consent(): nothing bound, nothing registered
InitSetup ==
    /\ categories = <<>>
    /\ extensions = [a \in Apps |-> Unbound]
    /\ registration = NothingRaised
    /\ returned = NoCategory
    /\ calls = <<>>
    /\ months = CONSENT_VALID_FOR_MONTHS
    /\ jar = NoCookie
    /\ NoTraffic
    /\ reqs = NoHandling

\* self.init_app(app), also as called by Consent(app)
InitApp(self, app) ==
    /\ LET r == init_app(extensions, self, app)
       IN  /\ extensions' = r.extensions
           /\ registration' = RaisedBy(self, app, r.exc)
    /\ UNCHANGED <<categories, returned, calls, months, requestVars, reqs>>

\* self._categories[name], as add_category returns it
Lookup(cats, name) == cats[CHOOSE i \in 1..Len(cats) : cats[i].name = name]

CallNames == {"required", "preferences", "analytics"}
Title(name) == IF name = "required" THEN "Required"
               ELSE IF name = "preferences" THEN "Preferences" ELSE "Analytics"

\* consent1.add_category(name, title, description, default)
AddCategory(name, default) ==
    /\ Len(calls) < MaxCalls
    /\ categories' = add_category(categories, name, Title(name), "...", default, FALSE)
    /\ returned' = Lookup(categories', name)
    /\ calls' = Append(calls, ConsentCategory(name, Title(name), "...", default, FALSE))
    /\ UNCHANGED <<extensions, registration, months, requestVars, reqs>>

\* consent1.add_standard_categories()
AddStandardCategories ==
    /\ Len(calls) + 3 <= MaxCalls
    /\ categories' = add_standard_categories(categories)
    /\ returned' = Lookup(categories', "analytics")
    /\ calls' = calls \o add_standard_categories(<<>>)
    /\ UNCHANGED <<extensions, registration, months, requestVars, reqs>>

NextSetup ==
    \/ \E self \in Extensions, app \in Apps : InitApp(self, app)
    \/ \E name \in CallNames, default \in BOOLEAN : AddCategory(name, default)
    \/ AddStandardCategories

SpecSetup == InitSetup /\ [][NextSetup]_vars

-----------------------------------------------------------------------------
(* Two requests handled concurrently by the application of the tests, one hour *)
(* after the clients' cookies were written: every handler of a request runs in *)
(* that request's context, where request.consent is its own ConsentData        *)

ConcurrentCookies ==
    {NoCookie, GarbageCookie}
    \cup {ObjectCookie(JStr(isoformat(0)), JList(l)) : l \in {<<"preferences">>, <<"required", UnknownName>>}}

ConcurrentRequests ==
    {Request("/", "GET", FALSE, NoPayload), Request("/consent", "GET", FALSE, NoPayload),
     Request("/consent", "GET", TRUE, NoPayload)}
    \cup {Request("/consent", "POST", TRUE, p) :
              p \in {JDict, JList(<<>>), JList(<<"required", "preferences">>), JList(<<UnknownName>>)}}

InitConcurrent ==
    /\ AppOfTheTests
    /\ months = CONSENT_VALID_FOR_MONTHS
    /\ jar = NoCookie
    /\ now = 1
    /\ pc = "idle"
    /\ req = NoRequest
    /\ attached = FALSE
    /\ enabled = {}
    /\ last_updated = 0
    /\ dirty = FALSE
    /\ response = NoResponse
    /\ just_posted = FALSE
    /\ reqs = NoHandling

InFlight(r) == r.pc \notin {"idle", "done"}

\* a faulty extension that keeps the ConsentData in one place for all requests
RequestConsent_Global(rs, i) ==
    [enabled |-> rs[1].enabled, last_updated |-> rs[1].last_updated, dirty |-> rs[1].dirty]

\* request.consent in the context of request i
RequestConsent(rs, i) ==
    [enabled |-> rs[i].enabled, last_updated |-> rs[i].last_updated, dirty |-> rs[i].dirty]

\* request i takes a step to the state r; the requests in flight together are marked
StepTo(i, r) ==
    /\ reqs' = [j \in ReqIds |->
                  LET together == InFlight(reqs[i]) /\ \E o \in ReqIds \ {i} : InFlight(reqs[o])
                  IN  IF j = i THEN [r EXCEPT !.mixed = reqs[i].mixed \/ together]
                      ELSE [reqs[j] EXCEPT !.mixed = @ \/ (together /\ InFlight(reqs[j]))]]
    /\ UNCHANGED <<categories, requestVars, months, setupVars>>

\* a request arrives with the cookie its client sends
Arrive(i, cookie, rq) ==
    /\ reqs[i].pc = "idle"
    /\ StepTo(i, [reqs[i] EXCEPT !.pc = "before", !.cookie = cookie, !.req = rq])

\* prepare_request: request.consent = ConsentData(self.state())
ConcurrentPrepare(i) ==
    /\ reqs[i].pc = "before"
    /\ LET d == Decode(reqs[i].cookie, now)
       IN  IF d.exc = "none"
           THEN StepTo(i, [reqs[i] EXCEPT !.enabled = d.enabled, !.last_updated = d.last_updated,
                                          !.dirty = FALSE, !.k = 1, !.pc = "handler"])
           ELSE StepTo(i, [reqs[i] EXCEPT !.response = ServerError, !.pc = "after"])

\* the view of the tests looks one category up: request.consent[name]
ConcurrentGet(i) ==
    /\ reqs[i].pc = "handler"
    /\ reqs[i].req.route = "/"
    /\ reqs[i].k <= Len(categories)
    /\ LET cat == categories[reqs[i].k]
           got == IF GetItem(RequestConsent(reqs, i).enabled, CategoryKey(cat)) THEN {cat.name} ELSE {}
       IN  StepTo(i, [reqs[i] EXCEPT !.response.gets = @ \cup got, !.k = @ + 1])

\* the view of the tests returns what it looked up
ConcurrentView(i) ==
    /\ reqs[i].pc = "handler"
    /\ reqs[i].req.route = "/"
    /\ reqs[i].k > Len(categories)
    /\ StepTo(i, [reqs[i] EXCEPT !.response = Response(200, <<>>, <<>>, <<>>, FALSE, reqs[i].response.gets),
                                  !.pc = "after"])

\* Consent._handle_consent_route up to the loop of assignments
ConcurrentValidate(i) ==
    /\ reqs[i].pc = "handler"
    /\ reqs[i].req.route = "/consent"
    /\ LET rq == reqs[i].req
       IN  IF ~rq.json
           THEN StepTo(i, [reqs[i] EXCEPT !.pc = "after",
                               !.response = Response(200, <<>>, <<>>, <<>>,
                                   html(Endpoint(rq.route), reqs[i].cookie,
                                        RequestConsent(reqs, i).last_updated, now), {})])
           ELSE IF IsPost(rq) /\ ~IsJsonList(rq.payload)
           THEN StepTo(i, [reqs[i] EXCEPT !.pc = "after",
                               !.response = respond_msg(400, <<"payload is not a list">>)])
           ELSE IF IsPost(rq) /\ FirstInvalid(categories, rq.payload.v) # 0
           THEN StepTo(i, [reqs[i] EXCEPT !.pc = "after",
                               !.response = InvalidResponse(rq.payload.v[FirstInvalid(categories, rq.payload.v)])])
           ELSE StepTo(i, [reqs[i] EXCEPT !.pc = IF IsPost(rq) THEN "set" ELSE "respond", !.k = 1])

\* one turn of the loop: request.consent[cat] = cat in new
ConcurrentSet(i) ==
    /\ reqs[i].pc = "set"
    /\ LET cat == categories[reqs[i].k]
           st == SetItem(RequestConsent(reqs, i), StrKey(cat.name),
                         cat.name \in Range(reqs[i].req.payload.v), now)
       IN  StepTo(i, [reqs[i] EXCEPT !.enabled = st.enabled, !.last_updated = st.last_updated,
                                     !.dirty = st.dirty, !.k = @ + 1,
                                     !.pc = IF reqs[i].k = Len(categories) THEN "respond" ELSE "set"])

\* respond(200, enabled=list(request.consent.enabled), last_updated=...)
ConcurrentRespond(i) ==
    /\ reqs[i].pc = "respond"
    /\ \E order \in Orderings(RequestConsent(reqs, i).enabled) :
           StepTo(i, [reqs[i] EXCEPT !.pc = "after",
                          !.response = respond_state(order, RequestConsent(reqs, i).last_updated)])

\* finalize_request: request.consent.finalize(response)
ConcurrentFinalize(i) ==
    /\ reqs[i].pc = "after"
    /\ LET st == RequestConsent(reqs, i)
       IN  IF st.dirty
           THEN \E order \in ListOf(st.enabled, reqs[i].response.enabled) :
                    StepTo(i, [reqs[i] EXCEPT !.pc = "done",
                                   !.response.set_cookie = Encode(order, st.last_updated),
                                   !.response.max_age = MaxAge(months)])
           ELSE StepTo(i, [reqs[i] EXCEPT !.pc = "done"])

NextConcurrent ==
    \E i \in ReqIds :
        \/ \E cookie \in ConcurrentCookies, rq \in ConcurrentRequests : Arrive(i, cookie, rq)
        \/ ConcurrentPrepare(i)
        \/ ConcurrentGet(i)
        \/ ConcurrentView(i)
        \/ ConcurrentValidate(i)
        \/ ConcurrentSet(i)
        \/ ConcurrentRespond(i)
        \/ ConcurrentFinalize(i)

SpecConcurrent == InitConcurrent /\ [][NextConcurrent]_vars

\* the responses a request can get when it is handled alone: prepare_request,
\* the view of its route, finalize_request
HandledAlone(cookie, rq, utcnow) ==
    LET d == Decode(cookie, utcnow)
        st0 == [enabled |-> d.enabled, last_updated |-> d.last_updated, dirty |-> FALSE]
        Written(rsp, st) ==
            IF st.dirty
            THEN {[rsp EXCEPT !.set_cookie = Encode(o, st.last_updated), !.max_age = MaxAge(months)] :
                      o \in ListOf(st.enabled, rsp.enabled)}
            ELSE {rsp}
    IN  IF d.exc # "none" THEN {ServerError}
        ELSE IF rq.route = "/"
        THEN {Response(200, <<>>, <<>>, <<>>, FALSE,
                  {categories[i].name : i \in {j \in 1..Len(categories) :
                                                GetItem(st0.enabled, CategoryKey(categories[j]))}})}
        ELSE IF ~rq.json
        THEN {Response(200, <<>>, <<>>, <<>>, html(Endpoint(rq.route), cookie, st0.last_updated, utcnow), {})}
        ELSE IF IsPost(rq) /\ ~IsJsonList(rq.payload)
        THEN {respond_msg(400, <<"payload is not a list">>)}
        ELSE IF IsPost(rq) /\ FirstInvalid(categories, rq.payload.v) # 0
        THEN {InvalidResponse(rq.payload.v[FirstInvalid(categories, rq.payload.v)])}
        ELSE LET st == IF IsPost(rq) THEN SetAll(st0, categories, 1, rq.payload.v, utcnow) ELSE st0
             IN  UNION {Written(respond_state(o, st.last_updated), st) : o \in Orderings(st.enabled)}

-----------------------------------------------------------------------------
(* Properties *)

RegisteredNames == CategoryNames(categories)

JsonPost(rq) == rq.route = "/consent" /\ rq.method = "POST" /\ rq.json

\* the consent route handles the request in this step
RouteStep == pc = "view" /\ req.route = "/consent" /\ pc' = "after"

\* after_request runs and the response is delivered in this step
FinalizeStep == pc = "after" /\ pc' = "idle"

\* C1: in a fresh request that carries no consent cookie, the lookup of every
\* registered category, by name or by category object, returns its default.
C1_DefaultOnFirstVisit ==
    (pc = "view" /\ jar.kind = "absent" /\ ~dirty) =>
        \A i \in 1..Len(categories) :
            /\ GetItem(enabled, StrKey(categories[i].name)) = categories[i].default
            /\ GetItem(enabled, CategoryKey(categories[i])) = categories[i].default

\* C2: after a successful JSON POST of the list P every registered category is
\* enabled exactly when it is in P, whatever the cookie decoded to, and the same
\* holds in the client's next request.
C2_CompleteReplacement ==
    [][ /\ (RouteStep /\ SuccessfulPost(req, response')) =>
               \A c \in RegisteredNames :
                   GetItem(enabled', StrKey(c)) = (c \in Range(req.payload.v))
        /\ (pc = "idle" /\ SuccessfulPost(req, response) /\ pc' # "idle") =>
               /\ pc' = "view"
               /\ \A c \in RegisteredNames :
                      GetItem(enabled', StrKey(c)) = (c \in Range(req.payload.v))
      ]_vars

\* a successful POST that enabled one registered category and disabled another
C2_Witness ==
    /\ pc = "after"
    /\ SuccessfulPost(req, response)
    /\ \E c \in RegisteredNames : c \in Decode(jar, now).enabled /\ c \notin enabled
    /\ \E c \in RegisteredNames : c \notin Decode(jar, now).enabled /\ c \in enabled

\* C3: the page rendered in the request that immediately follows a successful
\* JSON POST carries no banner, and a page rendered for a request without a
\* consent cookie carries it.
C3_BannerFollowsStaleness ==
    (pc = "after" /\ req.route = "/banner") =>
        /\ just_posted => ~response.banner
        /\ jar.kind = "absent" => response.banner

\* C4: a POSTed list with an element that is no registered name is answered 400
\* with the message naming the first such element, the consent state is left as
\* it was and no cookie is written.
C4_UnknownCategoryRejected ==
    [][ /\ (RouteStep /\ JsonPost(req) /\ req.payload.t = "list"
               /\ ~(Range(req.payload.v) \subseteq RegisteredNames)) =>
               /\ response'.status = 400
               /\ \E i \in 1..Len(req.payload.v) :
                      /\ req.payload.v[i] \notin RegisteredNames
                      /\ \A j \in 1..(i - 1) : req.payload.v[j] \in RegisteredNames
                      /\ response'.msg = <<"invalid consent category specified: ", req.payload.v[i]>>
               /\ UNCHANGED <<enabled, last_updated, dirty>>
        /\ (FinalizeStep /\ JsonPost(req) /\ req.payload.t = "list"
               /\ ~(Range(req.payload.v) \subseteq RegisteredNames)) =>
               /\ response'.set_cookie.kind = "absent"
               /\ jar' = jar
      ]_vars

\* C5: a POSTed payload that is not a list is answered 400 with the message
\* "payload is not a list", the consent state is left as it was and no cookie is
\* written.
C5_NonListRejected ==
    [][ /\ (RouteStep /\ JsonPost(req) /\ req.payload.t # "list") =>
               /\ response'.status = 400
               /\ response'.msg = <<"payload is not a list">>
               /\ UNCHANGED <<enabled, last_updated, dirty>>
        /\ (FinalizeStep /\ attached /\ JsonPost(req) /\ req.payload.t # "list") =>
               /\ response'.set_cookie.kind = "absent"
               /\ jar' = jar
      ]_vars

\* a non-list POST was rejected while the cookie held consent it could have lost
C5_Witness ==
    /\ pc = "idle"
    /\ JsonPost(req)
    /\ req.payload.t # "list"
    /\ response.status = 400
    /\ jar.kind = "object" /\ Decode(jar, now).enabled # {}

\* C6: setting a category to the value it has leaves the enabled set, the time
\* of the last update and the dirty flag as they are, and a request that ends
\* with the dirty flag clear writes no cookie.
C6_IdempotentSet ==
    [][ /\ \A i \in 1..Len(categories), value \in BOOLEAN :
               /\ (AppSet(StrKey(categories[i].name), value)
                      /\ value = GetItem(enabled, StrKey(categories[i].name)))
                      => UNCHANGED <<enabled, last_updated, dirty>>
               /\ (AppSet(CategoryKey(categories[i]), value)
                      /\ value = GetItem(enabled, CategoryKey(categories[i])))
                      => UNCHANGED <<enabled, last_updated, dirty>>
        /\ (FinalizeStep /\ ~dirty) =>
               /\ response'.set_cookie.kind = "absent"
               /\ jar' = jar
      ]_vars

\* a view of a request whose cookie holds consent, where setting an enabled
\* category to True changes nothing
C6_Witness ==
    /\ pc = "view"
    /\ req.route = "/"
    /\ ~dirty
    /\ jar.kind = "object"
    /\ \E c \in RegisteredNames : GetItem(enabled, StrKey(c))

\* C7: whatever the cookie holds, the request gets its ConsentData: the
\* constructor does not raise, and a cookie that is absent or malformed gives the
\* empty set and the current time.
C7_DecodeNeverFails ==
    /\ pc # "idle" => attached
    /\ (pc = "view" /\ ~dirty) =>
           /\ (jar.kind # "object" \/ jar.en.t # "list") => enabled = {}
           /\ (jar.kind # "object" \/ fromisoformat(jar.lu).exc # "none") => last_updated = now

\* C8: a cookie that is written enables registered categories only.
C8_WrittenNamesRegistered ==
    response.set_cookie.kind = "object" =>
        Range(response.set_cookie.en.v) \subseteq RegisteredNames

\* C9: the response to a successful POST of the list P has status 200 and an
\* enabled list whose elements are exactly those of P.
C9_ResponseEqualsPayload ==
    (pc \in {"after", "idle"} /\ SuccessfulPost(req, response)) =>
        Range(response.enabled) = Range(req.payload.v)

\* C10: the cookie written for a consent state decodes to the same enabled set
\* and the same time of last update, the next request decodes what the JSON
\* response of the writing request reported, and encoding what a cookie decodes
\* to and decoding it again gives the same enabled set.
C10_RoundTrip ==
    /\ [][ /\ (FinalizeStep /\ attached /\ dirty) =>
                  /\ Decode(jar', now).exc = "none"
                  /\ Decode(jar', now).enabled = enabled
                  /\ Decode(jar', now).last_updated = last_updated
           /\ (pc = "idle" /\ response.set_cookie.kind = "object" /\ pc' # "idle") =>
                  /\ pc' = "view"
                  /\ Decode(response.set_cookie, now).enabled = enabled'
                  /\ Decode(response.set_cookie, now).last_updated = last_updated'
                  /\ SuccessfulPost(req, response) =>
                         /\ enabled' = Range(response.enabled)
                         /\ isoformat(last_updated') = response.last_updated
         ]_vars
    /\ [](Decode(jar, now).exc = "none" =>
              \A order \in Orderings(Decode(jar, now).enabled) :
                  Decode(Encode(order, Decode(jar, now).last_updated), now).enabled
                      = Decode(jar, now).enabled)

\* a cookie listing several categories has been written
C10_Witness ==
    /\ pc = "idle"
    /\ response.set_cookie.kind = "object"
    /\ Len(response.set_cookie.en.v) >= 2
    /\ now > 0

\* C13: when the consent route handles a request that is not a JSON POST (a
\* JSON GET, or a non-JSON GET or POST that renders the full page), the enabled
\* set, last_updated and the dirty flag stay as decoded from the cookie, the
\* after-request step writes no cookie, and the JSON GET answers 200 with
\* exactly the decoded enabled set and last_updated.
C13_NonPostChangesNothing ==
    [][/\ (RouteStep /\ ~JsonPost(req)) =>
              /\ enabled' = enabled /\ last_updated' = last_updated /\ dirty' = dirty
              /\ enabled = Decode(jar, now).enabled
              /\ last_updated = Decode(jar, now).last_updated
              /\ ~dirty
              /\ req.json =>
                     /\ response'.status = 200
                     /\ Range(response'.enabled) = Decode(jar, now).enabled
                     /\ Len(response'.enabled) = Cardinality(Decode(jar, now).enabled)
                     /\ response'.last_updated = isoformat(Decode(jar, now).last_updated)
       /\ (FinalizeStep /\ req.route = "/consent" /\ ~JsonPost(req)) =>
              /\ response'.set_cookie = NoCookie
              /\ jar' = jar]_vars

\* a JSON GET of the consent route has reported a cookie's two names
C13_Witness ==
    /\ pc = "after"
    /\ req = Request("/consent", "GET", TRUE, NoPayload)
    /\ response.status = 200
    /\ Len(response.enabled) = 2
    /\ Range(response.enabled) = enabled

\* a request whose page calls flask_consent_code(): the banner view, or the
\* full consent page
Renders(rq) == rq.route = "/banner" \/ (rq.route = "/consent" /\ ~rq.json)

\* C14: a rendered page holds the injector's markup if and only if the route
\* is the consent route, or the request carried no consent cookie, or
\* last_updated + validity < now; otherwise the injector's output is empty.
C14_BannerIffConsentRouteOrStale ==
    (pc = "after" /\ attached /\ Renders(req)) =>
        (response.banner <=>
            \/ req.route = "/consent"
            \/ jar.kind = "absent"
            \/ last_updated + valid_for < now)

\* a page rendered at the last moment of the validity of the cookie's consent
\* holds no markup
C14_Witness ==
    /\ pc = "after"
    /\ req.route = "/banner"
    /\ jar.kind = "object"
    /\ now = last_updated + valid_for
    /\ ~response.banner

\* a view or the consent route runs in this step
InRequestStep == pc = "view" /\ pc' \in {"view", "after"}

\* C15, as claimed: whenever the dirty flag is true at the end of a request,
\* the request's enabled set differs from the one decoded from its cookie.
C15_DirtyMeansDiffers ==
    (pc = "after" /\ attached /\ dirty) => enabled # Decode(jar, now).enabled

\* C15, amended: within a request the dirty flag is raised exactly in a step
\* that changes the enabled set and is never cleared, so whenever it is true
\* at the end of a request some Set call changed membership (the set may be
\* back at the decoded one); whenever the enabled set differs from the
\* decoded one at the end of a request the flag is true; and the cookie is
\* written exactly when the flag is true.
C15_DirtyMeansChanged ==
    [][/\ InRequestStep =>
              /\ (dirty' /\ ~dirty) => enabled' # enabled
              /\ enabled' # enabled => dirty'
              /\ dirty => dirty'
       /\ (FinalizeStep /\ attached) =>
              /\ enabled # Decode(jar, now).enabled => dirty
              /\ dirty <=> response'.set_cookie # NoCookie]_vars

\* a request ends dirty with the enabled set it decoded
C15_Witness ==
    /\ pc = "after"
    /\ attached
    /\ dirty
    /\ enabled = Decode(jar, now).enabled

\* C16: within a request a step that changes membership sets last_updated to
\* the current time and a step that does not leaves it alone; a written cookie
\* carries that last_updated; and a page rendered in a later request that
\* carries a cookie whose last_updated + validity is not before now holds no
\* banner (the decoded state is not stale).
C16_LastUpdatedFollowsChanges ==
    [][/\ InRequestStep =>
              IF enabled' # enabled THEN last_updated' = now
              ELSE last_updated' = last_updated
       /\ (FinalizeStep /\ attached /\ dirty) =>
              /\ last_updated = now
              /\ response'.set_cookie.lu = JStr(isoformat(last_updated))
              /\ jar' = response'.set_cookie
       /\ (pc = "idle" /\ pc' = "view" /\ jar.kind = "object" /\ jar.lu.t = "str") =>
              last_updated' = Decode(jar, now).last_updated
       /\ (pc = "view" /\ pc' = "after" /\ req.route = "/banner"
              /\ jar.kind = "object" /\ now <= last_updated + valid_for) =>
              ~response'.banner]_vars

\* a cookie written one hour in is decoded at the last moment of its validity,
\* and the page holds no banner
C16_Witness ==
    /\ pc = "after"
    /\ req.route = "/banner"
    /\ jar.kind = "object"
    /\ last_updated > 0
    /\ jar.lu = JStr(isoformat(last_updated))
    /\ now = last_updated + valid_for
    /\ ~response.banner

\* C12: for every configured validity in months, the Max-Age of a written
\* consent cookie is the validity that the staleness check uses, in seconds:
\* months * 2628000.
C12_MaxAgeIsValidity ==
    response.set_cookie.kind # "absent" =>
        /\ response.max_age = valid_for * 60 * 60
        /\ response.max_age = months * 2628000

-----------------------------------------------------------------------------
(* Properties of the setup *)

\* C11: an init_app call on an application that already has a consent
\* extension raises KeyError and leaves everything the application holds of
\* the first extension as it is; an init_app call on an application without
\* one raises nothing and binds the calling extension.
C11_DoubleRegistrationFails ==
    [][\A self \in Extensions, app \in Apps :
          InitApp(self, app) =>
              IF extensions[app].consent # NoExtension
              THEN registration'.exc = "KeyError" /\ extensions' = extensions
              ELSE registration'.exc = "none" /\ extensions'[app] = Bound(self)
                   /\ \A a \in Apps \ {app} : extensions'[a] = extensions[a]]_vars

\* the second extension object failed to register on an application that the
\* first one still owns
C11_Witness ==
    /\ registration.exc = "KeyError"
    /\ extensions[registration.app].consent # registration.self
    /\ extensions[registration.app] = Bound(extensions[registration.app].consent)

\* the names of the calls of a log, each once, in the order of their first call
RECURSIVE FirstRegistered(_)
FirstRegistered(log) ==
    IF log = <<>> THEN <<>>
    ELSE LET before == FirstRegistered(SubSeq(log, 1, Len(log) - 1))
             name == log[Len(log)].name
         IN  IF name \in Range(before) THEN before ELSE Append(before, name)

\* the category of the last call of a log that registered the name
LastCall(log, name) ==
    log[CHOOSE i \in 1..Len(log) :
            /\ log[i].name = name
            /\ \A j \in (i + 1)..Len(log) : log[j].name # name]

\* C17: after any sequence of add_category calls the registry lists each
\* distinct name once, in the order of the names' first registration, each
\* with the category of its latest registration, and the last call returned
\* the category now stored under its name.
C17_RegistrationOrder ==
    /\ [i \in 1..Len(categories) |-> categories[i].name] = FirstRegistered(calls)
    /\ \A i \in 1..Len(categories) : categories[i] = LastCall(calls, categories[i].name)
    /\ calls # <<>> =>
           /\ returned = calls[Len(calls)]
           /\ returned = Lookup(categories, calls[Len(calls)].name)

\* the first name was registered again, with another value, after a second name
C17_Witness ==
    /\ Len(calls) = 3
    /\ calls[1].name = calls[3].name
    /\ calls[1] # calls[3]
    /\ calls[2].name # calls[1].name
    /\ Len(categories) = 2
    /\ categories[1] = calls[3]

-----------------------------------------------------------------------------
(* Properties of concurrently handled requests *)

\* C18: with the registry left as set up, in every interleaving of the steps
\* (decode, the handler's lookups and assignments, finalize) of two requests
\* handled concurrently, a finished request's response and written cookie are
\* among those it gets when handled alone with the same cookie.
C18_RequestsIndependent ==
    /\ categories = add_standard_categories(<<>>)
    /\ \A i \in ReqIds :
           reqs[i].pc = "done" =>
               reqs[i].response \in HandledAlone(reqs[i].cookie, reqs[i].req, now)

\* two requests whose steps were interleaved have both written a cookie, and
\* not the same one
C18_Witness ==
    /\ \A i \in ReqIds : reqs[i].pc = "done" /\ reqs[i].mixed
    /\ reqs[1].response.set_cookie # NoCookie
    /\ reqs[2].response.set_cookie # NoCookie
    /\ reqs[1].response.set_cookie.en # reqs[2].response.set_cookie.en

====
